---- MODULE Spec2Model ----
(***************************************************************************)
(* TFetchClient (type-fetch): a wrapper around fetch with a bounded retry  *)
(* loop, an in-memory cache of GET responses with lazy expiry and a batch  *)
(* eviction sweep, and content-type aware request bodies.                  *)
(*                                                                         *)
(* JavaScript runs each callback to completion, so one action is the code  *)
(* that runs between two awaits of one call: the call itself up to its     *)
(* first await, the continuation after fetch() settles, the continuation   *)
(* after response.text() / response.json() settles, and the continuation   *)
(* after the retry timer fires.  Several calls may be in flight at once    *)
(* (one per caller in Callers) and interleave at those awaits.             *)
(*                                                                         *)
(* JavaScript values are named by strings: "null" is null, "0" is the      *)
(* number 0 (falsy and not null), "objA" and "objB" are objects.  An       *)
(* optional value (T | undefined) is the empty set or a singleton.         *)
(***************************************************************************)
EXTENDS Integers, Sequences, FiniteSets, TLC

VARIABLES
    config,     \* this.config, fixed by the constructor
    now,        \* the clock Date.now() reads
    cache,      \* this.cache: the Map's entries in insertion order
    pc,         \* per caller: where its call is suspended
    req,        \* per caller: the call's arguments
    attempts,   \* per caller: handleRequest's local attempts
    log,        \* per caller: what the call has done so far, in order
    result      \* per caller: what its last call returned (or threw)

vars == <<config, now, cache, pc, req, attempts, log, result>>

----------------------------------------------------------------------------
(* Bounds of the model *)

\* The clock runs from 0 to MaxTime.
MaxTime == 3

\* retry.count is drawn from 0..MaxRetryCount.
MaxRetryCount == 2

\* The clock of the two callers that write the same key runs from 0 to
\* MaxWriteTime.
MaxWriteTime == 2

----------------------------------------------------------------------------
(* src/types.ts *)

DEFAULT_RETRY_COUNT == 0
DEFAULT_RETRY_DELAY == 1000
DEFAULT_MAX_CACHED_ENTRIES == 5000

Second == 1000
Minute == 60 * Second

\* a ?? b
Coalesce(opt, d) == IF opt = {} THEN d ELSE CHOOSE v \in opt : TRUE

\* a || b on numbers: 0 is falsy
OrElse(a, b) == IF a = 0 THEN b ELSE a

JSNull == "null"

\* the values an `if (x)` takes for false
Falsy(v) == v \in {"null", "0", "false", ""}

Truthy(v) == ~Falsy(v)

\* Result<T>: { data, error }; thrown is the exception when the call
\* rejected instead of returning, at is the time the call ended.
Result(d, e, t) == [data |-> d, error |-> e, thrown |-> JSNull, at |-> t]

Thrown(x, t) == [data |-> JSNull, error |-> JSNull, thrown |-> x, at |-> t]

NoResult == [data |-> JSNull, error |-> JSNull, thrown |-> JSNull, at |-> 0]

\* new TFetchError(message)
TFetchError(message) == "TFetchError: " \o message

----------------------------------------------------------------------------
(* constructor *)

Constructor(opts) ==
    [ debug |-> Coalesce(opts.debug, FALSE),
      retry |-> [ count   |-> Coalesce(opts.count, DEFAULT_RETRY_COUNT),
                  delay   |-> Coalesce(opts.delay, DEFAULT_RETRY_DELAY),
                  onRetry |-> opts.onRetry ],
      cache |-> [ enabled |-> Coalesce(opts.enabled, FALSE),
                  maxAge  |-> Coalesce(opts.maxAge, Minute * 5),
                  maxCachedEntries |->
                      Coalesce(opts.maxCachedEntries, DEFAULT_MAX_CACHED_ENTRIES) ] ]

----------------------------------------------------------------------------
(* GenerateCacheKey *)

\* The header names in use, in the order Headers.entries() lists them
\* (sorted by lower-cased name).
HeaderNameOrder == <<"accept", "content-type", "x-id">>

\* Headers lower-cases the names it is given.
Lower(name) == IF name = "Accept" THEN "accept"
               ELSE IF name = "Content-Type" THEN "content-type"
               ELSE IF name = "X-Id" THEN "x-id"
               ELSE name

\* The values given for one name, joined by ", " in the order given.
RECURSIVE CombinedValue(_, _)
CombinedValue(init, name) ==
    IF init = << >> THEN ""
    ELSE LET rest == CombinedValue(Tail(init), name) IN
         IF Lower(Head(init)[1]) # name THEN rest
         ELSE IF \E i \in 2..Len(init) : Lower(init[i][1]) = name
              THEN Head(init)[2] \o ", " \o rest
              ELSE Head(init)[2]

\* [...new Headers(init).entries()]
RECURSIVE EntriesFrom(_, _)
EntriesFrom(init, names) ==
    IF names = << >> THEN << >>
    ELSE LET n == Head(names) IN
         IF \E i \in 1..Len(init) : Lower(init[i][1]) = n
         THEN << <<n, CombinedValue(init, n)>> >> \o EntriesFrom(init, Tail(names))
         ELSE EntriesFrom(init, Tail(names))

HeadersEntries(init) == EntriesFrom(init, HeaderNameOrder)

\* JSON.stringify of an array of [name, value] pairs
RECURSIVE StringifyPairs(_)
StringifyPairs(entries) ==
    IF entries = << >> THEN ""
    ELSE "[\"" \o Head(entries)[1] \o "\",\"" \o Head(entries)[2] \o "\"]"
         \o (IF Len(entries) > 1 THEN "," ELSE "")
         \o StringifyPairs(Tail(entries))

JSONStringify(entries) == "[" \o StringifyPairs(entries) \o "]"

\* headers is {} (undefined) or {init}
GenerateCacheKey(url, headers) ==
    LET headersString ==
            IF headers # {}
            THEN JSONStringify(HeadersEntries(CHOOSE h \in headers : TRUE))
            ELSE ""
    IN  url \o "|" \o headersString

----------------------------------------------------------------------------
(* The cache: a Map, kept as the sequence of its entries in insertion order *)

Entry(k, d, t) == [key |-> k, data |-> d, timestamp |-> t]

CacheKeys(c) == {c[i].key : i \in 1..Len(c)}

CacheHas(c, k) == k \in CacheKeys(c)

\* Map.get
CacheGet(c, k) == c[CHOOSE i \in 1..Len(c) : c[i].key = k]

\* Map.set: an existing key keeps its place
CacheSet(c, k, d, t) ==
    IF CacheHas(c, k)
    THEN [i \in 1..Len(c) |-> IF c[i].key = k THEN Entry(k, d, t) ELSE c[i]]
    ELSE Append(c, Entry(k, d, t))

\* Map.delete
CacheDelete(c, k) == SelectSeq(c, LAMBDA e : e.key # k)

\* Array.prototype.sort with (a, b) => a[1].timestamp - b[1].timestamp:
\* stable, ascending by timestamp
RECURSIVE InsertByTimestamp(_, _)
InsertByTimestamp(sorted, e) ==
    IF sorted = << >> THEN <<e>>
    ELSE IF Head(sorted).timestamp <= e.timestamp
         THEN <<Head(sorted)>> \o InsertByTimestamp(Tail(sorted), e)
         ELSE <<e>> \o sorted

RECURSIVE SortByTimestamp(_)
SortByTimestamp(c) ==
    IF c = << >> THEN << >>
    ELSE InsertByTimestamp(SortByTimestamp(SubSeq(c, 1, Len(c) - 1)), c[Len(c)])

\* mutant: the sweep takes half of the entries
EntriesToRemoveHalf(entries) == Len(entries) \div 2

\* Math.floor(entries.length * 0.25)
EntriesToRemove(entries) == Len(entries) \div 4

\* the sweep runs when maxCachedEntries is truthy and equals cache.size
SweepDue(c) ==
    /\ config.cache.maxCachedEntries # 0
    /\ config.cache.maxCachedEntries = Len(c)

\* the keys the for loop of cleanupCache deletes
SweepVictims(c) ==
    LET entries == SortByTimestamp(c)
    IN  {entries[i].key : i \in 1..EntriesToRemove(entries)}

cleanupCache(c) ==
    IF SweepDue(c)
    THEN SelectSeq(c, LAMBDA e : e.key \notin SweepVictims(c))
    ELSE c

\* mutant: the sweep is skipped when the key is already in the Map
saveToCacheSweepsForNewKeys(c, key, data, t) ==
    CacheSet(IF CacheHas(c, key) THEN c ELSE cleanupCache(c), key, data, t)

saveToCache(c, key, data, t) == CacheSet(cleanupCache(c), key, data, t)

\* mutant: an expired entry is reported as a miss and left in the Map
getFromCacheKeepsExpired(c, key, t) ==
    IF ~CacheHas(c, key) THEN [data |-> JSNull, cache |-> c]
    ELSE LET cacheEntry == CacheGet(c, key)
             age == t - cacheEntry.timestamp
         IN  IF age > OrElse(config.cache.maxAge, 0)
             THEN [data |-> JSNull, cache |-> c]
             ELSE [data |-> cacheEntry.data, cache |-> c]

\* mutant: a hit renews the entry's timestamp
getFromCacheTouches(c, key, t) ==
    IF ~CacheHas(c, key) THEN [data |-> JSNull, cache |-> c]
    ELSE LET cacheEntry == CacheGet(c, key)
             age == t - cacheEntry.timestamp
         IN  IF age > OrElse(config.cache.maxAge, 0)
             THEN [data |-> JSNull, cache |-> CacheDelete(c, key)]
             ELSE [data |-> cacheEntry.data,
                   cache |-> CacheSet(c, key, cacheEntry.data, t)]

\* getFromCache: the data returned (null on a miss) and the cache it leaves
getFromCache(c, key, t) ==
    IF ~CacheHas(c, key) THEN [data |-> JSNull, cache |-> c]
    ELSE LET cacheEntry == CacheGet(c, key)
             age == t - cacheEntry.timestamp
         IN  IF age > OrElse(config.cache.maxAge, 0)
             THEN [data |-> JSNull, cache |-> CacheDelete(c, key)]
             ELSE [data |-> cacheEntry.data, cache |-> c]

----------------------------------------------------------------------------
(* getHeaders, serializeBody *)

\* a ContentWrapper: { type, data }, data a string
ContentWrapper(type, data) == [type |-> type, data |-> data]

getHeaders(contentType) ==
    CASE contentType = "json" -> << <<"Content-Type", "application/json">> >>
      [] contentType = "form" -> << <<"Content-Type", "application/x-www-form-urlencoded">> >>
      [] contentType = "text" -> << <<"Content-Type", "text/plain">> >>
      [] contentType = "blob" -> << <<"Content-Type", "application/octet-stream">> >>
      [] OTHER -> << >>

\* mutant: the default case of serializeBody does not throw
SupportedContentTypeAny(type) == TRUE

\* the cases of serializeBody that return; the default case throws
SupportedContentType(type) == type \in {"json", "form", "text", "blob"}

\* new Error(`Unsupported content type: ${body.type}`)
UnsupportedContentType(body) == "Error: Unsupported content type: " \o body.type

\* serializeBody: what it returns for a supported type, and what it throws
\* for any other
serializeBody(body) ==
    CASE body.type = "json" -> "\"" \o body.data \o "\""
      [] body.type = "form" -> body.data \o "="
      [] body.type = "text" -> body.data
      [] body.type = "blob" -> body.data
      [] OTHER -> UnsupportedContentType(body)

----------------------------------------------------------------------------
(* The calls in flight *)

\* the callers that may each have one call in flight
Callers == {"c1", "c2"}

Request(method, url, headers, body) ==
    [method |-> method, url |-> url, headers |-> headers, body |-> body]

NoRequest == [method |-> "", url |-> "", headers |-> {}, body |-> ""]

\* One entry of log: what happened, and a number that goes with it.  The
\* entries are "hit" and "expired" (what getFromCache found), "fetch"
\* (request() was called), "ok" and "notOk" (response.ok), "catch" (the
\* catch block was entered), "onRetry", "sleep" with its milliseconds, and
\* "cleanup" (the sweep of cleanupCache ran) with the entries it deleted.
Event(what) == <<what, 0>>

\* the entry of the catch block, with the error that was caught
Caught(error) == <<"catch", error>>

Sleep(ms) == <<"sleep", ms>>

Cleanup(deleted) == <<"cleanup", deleted>>

Count(lg, what) == Cardinality({i \in 1..Len(lg) : lg[i][1] = what})

\* mutant: one retry more than configured
maxRetriesOneMore == OrElse(config.retry.count, DEFAULT_RETRY_COUNT) + 1

\* const maxRetries = this.config.retry.count || DEFAULT_RETRY_COUNT
maxRetries == OrElse(config.retry.count, DEFAULT_RETRY_COUNT)

\* const delay = this.config.retry.delay || DEFAULT_RETRY_DELAY
delay == OrElse(config.retry.delay, DEFAULT_RETRY_DELAY)

\* mutant: the key is that of the request of the first caller, whichever
\* call asks
ckeyOfFirstCaller(r) == GenerateCacheKey(req["c1"].url, req["c1"].headers)

\* const ckey = this.GenerateCacheKey(url, headers)
ckey(r) == GenerateCacheKey(r.url, r.headers)

\* mutant: get saves its result whether or not the cache is enabled
CacheableWhenDisabled(r, res) ==
    /\ r.method = "GET"
    /\ Truthy(res.data)

\* mutant: every verb saves its result
CacheableAnyVerb(r, res) ==
    /\ config.cache.enabled
    /\ Truthy(res.data)

\* get's test after handleRequest: is the result written to the cache
Cacheable(r, res) ==
    /\ r.method = "GET"
    /\ config.cache.enabled
    /\ Truthy(res.data)

\* handleRequest returns res and the verb's continuation runs: get saves a
\* cacheable result, and the call returns res to its caller.
Finish(p, r, res, lg, c) ==
    /\ pc' = [pc EXCEPT ![p] = "done"]
    /\ result' = [result EXCEPT ![p] = res]
    /\ log' = [log EXCEPT ![p] =
                  IF Cacheable(r, res) /\ SweepDue(c)
                  THEN Append(lg, Cleanup(Len(c) - Len(cleanupCache(c))))
                  ELSE lg]
    /\ cache' = IF Cacheable(r, res) THEN saveToCache(c, ckey(r), res.data, now) ELSE c

\* the test of the while loop
LoopTest(att) == att <= maxRetries

\* The head of handleRequest's while loop: request() is called and awaited,
\* or the loop is left and the fall-through result is returned.
LoopHead(p, r, att, lg, c) ==
    IF LoopTest(att)
    THEN /\ pc' = [pc EXCEPT ![p] = "awaitFetch"]
         /\ log' = [log EXCEPT ![p] = Append(lg, Event("fetch"))]
         /\ result' = [result EXCEPT ![p] = NoResult]
         /\ cache' = c
    ELSE Finish(p, r, Result(JSNull, TFetchError("Request failed after maximum retries"), now),
                lg, c)

\* handleRequest is entered: let attempts = 0
HandleRequest(p, r, lg, c) ==
    /\ req' = [req EXCEPT ![p] = r]
    /\ attempts' = [attempts EXCEPT ![p] = 0]
    /\ LoopHead(p, r, 0, lg, c)

\* mutant: the catch block retries once more than the loop allows
RetryTestInclusive(att) == att <= maxRetries

\* the test of the catch block
RetryTest(att) == att < maxRetries

\* mutant: the catch block does not count the attempt
AttemptNotCounted(att) == att

\* attempts++
NextAttempt(att) == att + 1

\* mutant: the budget is exhausted and no error is returned
ExhaustedDropsError(error) == Result(JSNull, JSNull, now)

\* mutant: the budget is exhausted and the fall-through error is returned
ExhaustedGeneric(error) ==
    Result(JSNull, TFetchError("Request failed after maximum retries"), now)

\* return { data: null, error: error as TFetchError }
Exhausted(error) == Result(JSNull, error, now)

\* mutant: only a get is retried
RetryableGetOnly(p) == RetryTest(attempts[p]) /\ req[p].method = "GET"

\* if (attempts < maxRetries), in the call of p, whatever its verb
Retryable(p) == RetryTest(attempts[p])

\* mutant: an exception of onRetry is caught and dropped
OnRetryThrowsCaught(raises) == FALSE

\* this.config.retry.onRetry() is called outside any try: what it throws
\* leaves handleRequest
OnRetryThrows(raises) == raises

\* The catch block: error was thrown inside the try.  raises tells whether
\* onRetry, when it is called, throws.
Catch(p, error, raises) ==
    LET lg == Append(log[p], Caught(error)) IN
    IF Retryable(p)
    THEN /\ attempts' = [attempts EXCEPT ![p] = NextAttempt(attempts[p])]
         /\ cache' = cache
         /\ IF config.retry.onRetry # {}
            THEN IF OnRetryThrows(raises)
                 THEN /\ pc' = [pc EXCEPT ![p] = "raised"]
                      /\ log' = [log EXCEPT ![p] = Append(lg, Event("onRetry"))]
                      /\ result' = [result EXCEPT ![p] = Thrown("OnRetryError", now)]
                 ELSE /\ pc' = [pc EXCEPT ![p] = "sleeping"]
                      /\ log' = [log EXCEPT ![p] =
                                    lg \o <<Event("onRetry"), Sleep(delay)>>]
                      /\ result' = result
            ELSE /\ ~raises
                 /\ pc' = [pc EXCEPT ![p] = "sleeping"]
                 /\ log' = [log EXCEPT ![p] = Append(lg, Sleep(delay))]
                 /\ result' = result
    ELSE /\ ~raises
         /\ attempts' = attempts
         /\ Finish(p, req[p], Exhausted(error), lg, cache)

----------------------------------------------------------------------------
(* Actions *)

\* a caller with no call in flight: it made none yet, or its last call has
\* returned or thrown, and req and result still hold that call
Free(p) == pc[p] \in {"idle", "done", "raised"}

\* client.get(url, headers), up to the first await
Get(p, url, headers) ==
    /\ Free(p)
    /\ LET r == Request("GET", url, headers, "")
           look == IF config.cache.enabled
                   THEN getFromCache(cache, ckey(r), now)
                   ELSE [data |-> JSNull, cache |-> cache]
       IN  IF config.cache.enabled /\ Truthy(look.data)
           THEN /\ req' = [req EXCEPT ![p] = r]
                /\ pc' = [pc EXCEPT ![p] = "done"]
                /\ result' = [result EXCEPT ![p] = Result(look.data, JSNull, now)]
                /\ cache' = look.cache
                /\ attempts' = [attempts EXCEPT ![p] = 0]
                /\ log' = [log EXCEPT ![p] = <<Event("hit")>>]
           ELSE HandleRequest(p, r,
                              IF /\ config.cache.enabled
                                 /\ CacheHas(cache, ckey(r))
                                 /\ look.data = JSNull
                              THEN <<Event("expired")>> ELSE << >>,
                              look.cache)
    /\ UNCHANGED <<config, now>>

\* post and put, up to the first await
Submit(p, method, url, body) ==
    /\ Free(p)
    /\ LET headers == getHeaders(body.type) IN
       IF SupportedContentType(body.type)
       THEN HandleRequest(p, Request(method, url, {headers}, serializeBody(body)),
                          << >>, cache)
       ELSE /\ req' = [req EXCEPT ![p] = Request(method, url, {headers}, "")]
            /\ pc' = [pc EXCEPT ![p] = "raised"]
            /\ result' = [result EXCEPT ![p] = Thrown(UnsupportedContentType(body), now)]
            /\ attempts' = [attempts EXCEPT ![p] = 0]
            /\ log' = [log EXCEPT ![p] = << >>]
            /\ cache' = cache
    /\ UNCHANGED <<config, now>>

\* client.post(url, body)
Post(p, url, body) == Submit(p, "POST", url, body)

\* client.put(url, body)
Put(p, url, body) == Submit(p, "PUT", url, body)

\* client.delete(url, headers), up to the first await
Delete(p, url, headers) ==
    /\ Free(p)
    /\ HandleRequest(p, Request("DELETE", url, headers, ""), << >>, cache)
    /\ UNCHANGED <<config, now>>

\* await request() resolves with a response: response.ok is tested and the
\* body is read, as text when it is false and as JSON when it is true
FetchResolve(p, ok) ==
    /\ pc[p] = "awaitFetch"
    /\ pc' = [pc EXCEPT ![p] = IF ok THEN "awaitJson" ELSE "awaitText"]
    /\ log' = [log EXCEPT ![p] = Append(log[p], Event(IF ok THEN "ok" ELSE "notOk"))]
    /\ UNCHANGED <<config, now, cache, req, attempts, result>>

\* await request() rejects with error
FetchReject(p, error, raises) ==
    /\ pc[p] = "awaitFetch"
    /\ Catch(p, error, raises)
    /\ UNCHANGED <<config, now, req>>

\* await response.text() resolves with errorText
TextResolve(p, errorText) ==
    /\ pc[p] = "awaitText"
    /\ Finish(p, req[p], Result(JSNull, TFetchError(errorText), now), log[p], cache)
    /\ UNCHANGED <<config, now, req, attempts>>

\* await response.text() rejects with error
TextReject(p, error, raises) ==
    /\ pc[p] = "awaitText"
    /\ Catch(p, error, raises)
    /\ UNCHANGED <<config, now, req>>

\* await response.json() resolves with data
JsonResolve(p, data) ==
    /\ pc[p] = "awaitJson"
    /\ Finish(p, req[p], Result(data, JSNull, now), log[p], cache)
    /\ UNCHANGED <<config, now, req, attempts>>

\* mutant: a body that cannot be decoded ends the call at once
JsonRejectTerminal(p, error, raises) ==
    /\ pc[p] = "awaitJson"
    /\ ~raises
    /\ Finish(p, req[p], Exhausted(error), Append(log[p], Caught(error)), cache)
    /\ UNCHANGED <<config, now, req, attempts>>

\* await response.json() rejects with error
JsonReject(p, error, raises) ==
    /\ pc[p] = "awaitJson"
    /\ Catch(p, error, raises)
    /\ UNCHANGED <<config, now, req>>

\* await this.sleep(delay) resolves: the while loop goes round
Wake(p) ==
    /\ pc[p] = "sleeping"
    /\ LoopHead(p, req[p], attempts[p], log[p], cache)
    /\ UNCHANGED <<config, now, req, attempts>>

\* time passes
Tick ==
    /\ now < MaxTime
    /\ now' = now + 1
    /\ UNCHANGED <<config, cache, pc, req, attempts, log, result>>

----------------------------------------------------------------------------
(* Specifications *)

\* The options given to the constructor: each field absent ({}) or given.
Options(counts, delays, onRetrys, enableds, maxAges, maxEntries) ==
    [ debug : {{}}, count : counts, delay : delays, onRetry : onRetrys,
      enabled : enableds, maxAge : maxAges, maxCachedEntries : maxEntries ]

\* the state new TFetchClient(opts) leaves, for opts in options
InitWith(options) ==
    /\ config \in {Constructor(opts) : opts \in options}
    /\ now = 0
    /\ cache = << >>
    /\ pc = [p \in Callers |-> "idle"]
    /\ req = [p \in Callers |-> NoRequest]
    /\ attempts = [p \in Callers |-> 0]
    /\ log = [p \in Callers |-> << >>]
    /\ result = [p \in Callers |-> NoResult]

\* The steps of the callers in P, which get the urls U with headers H and
\* post, put and delete the urls V with bodies B, against a transport that
\* answers with payloads D, body texts T and errors E.
NextOver(P, U, H, V, B, D, T, E) ==
    \/ \E p \in P, url \in U, headers \in H : Get(p, url, headers)
    \/ \E p \in P, url \in V, body \in B : Post(p, url, body)
    \/ \E p \in P, url \in V, body \in B : Put(p, url, body)
    \/ \E p \in P, url \in V, headers \in H : Delete(p, url, headers)
    \/ \E p \in P, ok \in BOOLEAN : FetchResolve(p, ok)
    \/ \E p \in P, error \in E, raises \in BOOLEAN : FetchReject(p, error, raises)
    \/ \E p \in P, errorText \in T : TextResolve(p, errorText)
    \/ \E p \in P, error \in E, raises \in BOOLEAN : TextReject(p, error, raises)
    \/ \E p \in P, data \in D : JsonResolve(p, data)
    \/ \E p \in P, error \in E, raises \in BOOLEAN : JsonReject(p, error, raises)
    \/ \E p \in P : Wake(p)
    \/ Tick

\* One caller that gets two urls and posts, puts and deletes one, with the
\* cache off or on; the transport answers, fails, or answers with a body
\* that cannot be read.
Urls == {"/a", "/b"}

Payloads == {"null", "0", "objA", "objB"}

Init ==
    InitWith(Options({{1}}, {{}}, {{}}, {{}, {TRUE}}, {{0}, {1}}, {{1}, {2}}))

Next ==
    NextOver({"c1"}, Urls, {{}}, {"/a"}, {ContentWrapper("json", "x")},
             Payloads, {"Not Found"}, {"TypeError"})

Spec == Init /\ [][Next]_vars

\* One caller and every retry setting, the cache off.  fetch and
\* response.text() reject with a TypeError, response.json() with a
\* SyntaxError.
InitRetry ==
    InitWith(Options({{}} \cup {{n} : n \in 0..MaxRetryCount}, {{}, {0}, {250}},
                     {{}, {"onRetry"}}, {{}}, {{}}, {{}}))

NextRetry ==
    \/ Get("c1", "/a", {})
    \/ Post("c1", "/a", ContentWrapper("json", "x"))
    \/ Put("c1", "/a", ContentWrapper("json", "x"))
    \/ Delete("c1", "/a", {})
    \/ \E ok \in BOOLEAN : FetchResolve("c1", ok)
    \/ \E raises \in BOOLEAN : FetchReject("c1", "TypeError", raises)
    \/ TextResolve("c1", "Not Found")
    \/ \E raises \in BOOLEAN : TextReject("c1", "TypeError", raises)
    \/ \E data \in {"null", "objA"} : JsonResolve("c1", data)
    \/ \E raises \in BOOLEAN : JsonReject("c1", "SyntaxError", raises)
    \/ Wake("c1")
    \/ Tick

SpecRetry == InitRetry /\ [][NextRetry]_vars

\* One caller that gets five urls through a cache of four entries, against
\* a transport that always answers.
SweepUrls == {"/a", "/b", "/c", "/d", "/e"}

SweepPayloads == {"0", "objA"}

InitSweep ==
    InitWith(Options({{}}, {{}}, {{}}, {{TRUE}}, {{1}}, {{4}}))

NextSweep ==
    \/ \E url \in SweepUrls : Get("c1", url, {})
    \/ \E ok \in BOOLEAN : FetchResolve("c1", ok)
    \/ TextResolve("c1", "Not Found")
    \/ \E data \in SweepPayloads : JsonResolve("c1", data)
    \/ Tick

SpecSweep == InitSweep /\ [][NextSweep]_vars

\* One caller that gets, posts, puts and deletes one url through an enabled
\* cache, with and without the header post and put send, and with a body of
\* a content type serializeBody does not know.
JsonHeaders == getHeaders("json")

Bodies == {ContentWrapper("json", "x"), ContentWrapper("xml", "x")}

InitVerbs ==
    InitWith(Options({{1}}, {{}}, {{"onRetry"}}, {{TRUE}}, {{1}}, {{}}))

NextVerbs ==
    NextOver({"c1"}, {"/a"}, {{}, {JsonHeaders}}, {"/a"}, Bodies,
             {"objA", "objB"}, {"Not Found"}, {"TypeError"})

SpecVerbs == InitVerbs /\ [][NextVerbs]_vars

\* Two callers that get the same url through an enabled cache, neither
\* waiting for the other, against a transport that answers.
ConcurrentPayloads == {"0", "objA", "objB"}

InitConcurrent ==
    InitWith(Options({{}}, {{}}, {{}}, {{TRUE}}, {{}}, {{}}))

NextConcurrent ==
    \/ \E p \in Callers : Get(p, "/a", {})
    \/ \E p \in Callers, ok \in BOOLEAN : FetchResolve(p, ok)
    \/ \E p \in Callers : TextResolve(p, "Not Found")
    \/ \E p \in Callers, data \in ConcurrentPayloads : JsonResolve(p, data)
    \/ Tick

SpecConcurrent == InitConcurrent /\ [][NextConcurrent]_vars

\* Two callers that get one url with headers given in several ways: not at
\* all, as an empty object, and as objects of one or two headers in either
\* order.
KeyHeaders ==
    { {},
      {<< >>},
      {<< <<"Accept", "a">> >>},
      {<< <<"Accept", "b">> >>},
      {<< <<"Accept", "a">>, <<"X-Id", "1">> >>},
      {<< <<"X-Id", "1">>, <<"Accept", "a">> >>} }

InitKey ==
    InitWith(Options({{}}, {{}}, {{}}, {{TRUE}}, {{}}, {{}}))

NextKey ==
    \/ \E p \in Callers, headers \in KeyHeaders : Get(p, "/a", headers)
    \/ \E p \in Callers : FetchResolve(p, TRUE)
    \/ \E p \in Callers : JsonResolve(p, "objA")

SpecKey == InitKey /\ [][NextKey]_vars

\* One caller and every retry count, against a transport that settles
\* every await sooner or later, a timer that fires, and an onRetry that
\* returns.
Settle(p) ==
    \/ \E ok \in BOOLEAN : FetchResolve(p, ok)
    \/ \E error \in {"TypeError"} : FetchReject(p, error, FALSE)
    \/ TextResolve(p, "Not Found")
    \/ \E error \in {"TypeError"} : TextReject(p, error, FALSE)
    \/ JsonResolve(p, "objA")
    \/ \E error \in {"SyntaxError"} : JsonReject(p, error, FALSE)

InitLive ==
    InitWith(Options({{}} \cup {{n} : n \in 0..MaxRetryCount}, {{}},
                     {{}, {"onRetry"}}, {{}}, {{}}, {{}}))

NextLive ==
    \/ Get("c1", "/a", {})
    \/ Post("c1", "/a", ContentWrapper("json", "x"))
    \/ Put("c1", "/a", ContentWrapper("json", "x"))
    \/ Delete("c1", "/a", {})
    \/ Settle("c1")
    \/ Wake("c1")

SpecLive ==
    /\ InitLive
    /\ [][NextLive]_vars
    /\ WF_vars(Settle("c1"))
    /\ WF_vars(Wake("c1"))

\* Two callers that get five urls through a cache of four entries that do
\* not expire, against a transport that answers: a get may write a key that
\* another get, in flight at the same time, has written before it.
InitWrite ==
    InitWith(Options({{}}, {{}}, {{}}, {{TRUE}}, {{}}, {{4}}))

NextWrite ==
    \/ \E url \in SweepUrls : Get("c1", url, {})
    \/ Get("c2", "/a", {})
    \/ \E p \in Callers : FetchResolve(p, TRUE)
    \/ \E p \in Callers : JsonResolve(p, "objA")
    \/ (now < MaxWriteTime /\ Tick)

SpecWrite == InitWrite /\ [][NextWrite]_vars

\* Two callers that get two urls through an enabled cache, neither waiting
\* for the other, against a server that answers each url with payloads of
\* its own, or fails.
PayloadsOf(url, headers) ==
    IF url = "/a" THEN {"a1", "a2"}
    ELSE IF headers = {} THEN {"b1", "b2"}
    ELSE {"b1-id", "b2-id"}

IntegrityHeaders == { {}, {<< <<"X-Id", "1">> >>} }

InitIntegrity ==
    InitWith(Options({{}}, {{}}, {{}}, {{TRUE}}, {{1}}, {{}}))

NextIntegrity ==
    \/ \E url \in Urls : Get("c1", url, {})
    \/ \E headers \in IntegrityHeaders : Get("c2", "/b", headers)
    \/ \E p \in Callers, ok \in BOOLEAN : FetchResolve(p, ok)
    \/ \E p \in Callers : FetchReject(p, "TypeError", FALSE)
    \/ \E p \in Callers : TextResolve(p, "Not Found")
    \/ \E p \in Callers : \E data \in PayloadsOf(req[p].url, req[p].headers) :
           JsonResolve(p, data)
    \/ \E p \in Callers : JsonReject(p, "SyntaxError", FALSE)
    \/ (now < MaxWriteTime /\ Tick)

SpecIntegrity == InitIntegrity /\ [][NextIntegrity]_vars

----------------------------------------------------------------------------
(* Claims *)

\* the calls to the transport, the entries to the catch block and the
\* calls of onRetry that the call of p has made
Calls(p) == Count(log[p], "fetch")

Failures(p) == Count(log[p], "catch")

OnRetryCalls(p) == Count(log[p], "onRetry")

Last(lg) == lg[Len(lg)]

\* C1: with caching enabled and maxCachedEntries >= 1 the cache never holds
\* more than maxCachedEntries entries.
C1_CacheSizeBounded ==
    (config.cache.enabled /\ config.cache.maxCachedEntries >= 1)
        => Len(cache) <= config.cache.maxCachedEntries

\* C2: every result a call returns has exactly one of data and error
\* non-null.
C2_ExactlyOneOfDataError ==
    \A p \in Callers :
        pc[p] = "done" => ((result[p].data = JSNull) # (result[p].error = JSNull))

\* C3: with retry.count = n no call makes more than n + 1 attempts; a call
\* whose attempts all failed made exactly n + 1 and returns a failure; a call
\* whose last attempt succeeded after k failures made exactly k + 1 attempts,
\* k <= n, and returns a success.
C3_RetryBound ==
    \A p \in Callers :
        /\ Calls(p) <= config.retry.count + 1
        /\ (pc[p] = "done" /\ Calls(p) > 0 /\ Failures(p) = Calls(p))
               => /\ Calls(p) = config.retry.count + 1
                  /\ result[p].data = JSNull
                  /\ result[p].error # JSNull
        /\ (pc[p] = "done" /\ Calls(p) > 0 /\ Last(log[p]) = Event("ok"))
               => /\ Calls(p) = Failures(p) + 1
                  /\ Failures(p) <= config.retry.count
                  /\ result[p].error = JSNull

\* a call with retry.count = 2 that failed twice and then succeeded, and
\* made three attempts
C3_Witness ==
    \E p \in Callers :
        /\ pc[p] = "done"
        /\ config.retry.count = 2
        /\ Failures(p) = 2
        /\ Calls(p) = 3
        /\ Last(log[p]) = Event("ok")
        /\ result[p].data = "objA"

\* C4: after a response whose ok is false the call makes no further attempt,
\* calls onRetry no more and sleeps no more, and when it returns right after
\* that response it returns data = null and the body text as the error.
C4_NoRetryOnStatusFailure ==
    \A p \in Callers : \A i \in 1..Len(log[p]) :
        log[p][i] = Event("notOk") =>
            /\ \A j \in (i + 1)..Len(log[p]) :
                   log[p][j][1] \notin {"fetch", "onRetry", "sleep"}
            /\ (pc[p] = "done" /\ i = Len(log[p]))
                   => /\ result[p].data = JSNull
                      /\ result[p].error = TFetchError("Not Found")

\* C5: with caching enabled, a get issued within maxAge of the end of a
\* successful get of the same url and headers by the same caller returns the
\* same data and does not call the transport.
C5_SecondGetFromCache ==
    [][\A p \in Callers : \A url \in Urls :
          ( /\ config.cache.enabled
            /\ pc[p] = "done"
            /\ req[p] = Request("GET", url, {}, "")
            /\ result[p].error = JSNull
            /\ now - result[p].at <= config.cache.maxAge
            /\ Get(p, url, {}) )
          => /\ pc'[p] = "done"
             /\ result'[p].data = result[p].data
             /\ Count(log'[p], "fetch") = 0]_vars

\* C6: a get that finds an entry older than maxAge under its key deletes it
\* and goes on to call the transport; a get that is answered from the cache
\* was answered with an entry no older than maxAge.
C6_ExpiredNeverServed ==
    [][\A p \in Callers : \A url \in Urls :
          LET k == GenerateCacheKey(url, {}) IN
          /\ ( /\ config.cache.enabled
               /\ Get(p, url, {})
               /\ CacheHas(cache, k)
               /\ now - CacheGet(cache, k).timestamp > config.cache.maxAge )
             => /\ ~CacheHas(cache', k)
                /\ pc'[p] = "awaitFetch"
                /\ Last(log'[p]) = Event("fetch")
                /\ result'[p] = NoResult
          /\ ( /\ Get(p, url, {})
               /\ pc'[p] = "done" )
             => /\ CacheHas(cache, k)
                /\ now - CacheGet(cache, k).timestamp <= config.cache.maxAge
                /\ result'[p].data = CacheGet(cache, k).data]_vars

\* a get found its entry expired, the entry is gone and the transport has
\* been called
C6_Witness ==
    \E p \in Callers :
        /\ pc[p] = "awaitFetch"
        /\ log[p] = <<Event("expired"), Event("fetch")>>
        /\ ~CacheHas(cache, ckey(req[p]))

\* C7: every sleep between two attempts lasts retry.delay, so a call that
\* returns after a attempts has slept (a - 1) * retry.delay in all.
RECURSIVE TotalDelay(_)
TotalDelay(lg) ==
    IF lg = << >> THEN 0
    ELSE (IF Head(lg)[1] = "sleep" THEN Head(lg)[2] ELSE 0) + TotalDelay(Tail(lg))

C7_DelayAsConfigured ==
    \A p \in Callers :
        /\ \A i \in 1..Len(log[p]) :
               log[p][i][1] = "sleep" => log[p][i][2] = config.retry.delay
        /\ (pc[p] = "done" /\ Calls(p) > 0)
               => TotalDelay(log[p]) = (Calls(p) - 1) * config.retry.delay

\* C8: onRetry is called only right after the catch of a failed attempt
\* that is retried and right before the sleep, never after an attempt that
\* got a response whose ok is false, and a call that returns has called it
\* once less than it called the transport.
C8_OnRetryPerRetriedFailure ==
    \A p \in Callers :
        config.retry.onRetry # {} =>
            /\ \A i \in 1..Len(log[p]) :
                   log[p][i] = Event("onRetry") =>
                       /\ i >= 3
                       /\ log[p][i - 1][1] = "catch"
                       /\ log[p][i - 2] # Event("notOk")
                       /\ i < Len(log[p]) => log[p][i + 1][1] = "sleep"
            /\ \A i \in 1..Len(log[p]) :
                   log[p][i][1] = "sleep" => (i >= 2 /\ log[p][i - 1] = Event("onRetry"))
            /\ (pc[p] = "done" /\ Calls(p) > 0) => OnRetryCalls(p) = Calls(p) - 1

\* C9: a cache write that finds the cache at maxCachedEntries removes
\* floor(size * 0.25) entries, none of them newer than an entry it keeps,
\* leaves the kept entries as they were and then writes its own; with
\* maxCachedEntries = 4 and four entries of increasing timestamps, the write
\* of a fifth key removes the oldest and leaves four.
C9_SweepOldestQuarter ==
    [][\A data \in SweepPayloads :
          LET p == "c1"
              k == ckey(req[p])
              keys == CacheKeys(cache)
              size == Len(cache)
          IN
          ( /\ JsonResolve(p, data)
            /\ Cacheable(req[p], Result(data, JSNull, now))
            /\ size = config.cache.maxCachedEntries )
          => /\ \E V \in SUBSET keys :
                    /\ 4 * Cardinality(V) <= size
                    /\ size < 4 * (Cardinality(V) + 1)
                    /\ \A v \in V, r \in keys \ V :
                           CacheGet(cache, v).timestamp <= CacheGet(cache, r).timestamp
                    /\ CacheKeys(cache') = (keys \ V) \cup {k}
                    /\ \A r \in keys \ (V \cup {k}) :
                           CacheGet(cache', r) = CacheGet(cache, r)
             /\ CacheGet(cache', k) = Entry(k, data, now)
             /\ ( /\ size = 4
                  /\ k \notin keys
                  /\ \A i \in 1..3 : cache[i].timestamp < cache[i + 1].timestamp )
                => /\ Len(cache') = 4
                   /\ CacheKeys(cache') = (keys \ {cache[1].key}) \cup {k}]_vars

\* four entries written at times 0, 1, 2 and 3, and the write of a fifth key
\* has removed the one written at time 0
C9_Witness ==
    /\ pc["c1"] = "done"
    /\ Last(log["c1"]) = Cleanup(1)
    /\ Len(cache) = 4
    /\ cache[1].timestamp = 1
    /\ cache[2].timestamp = 2
    /\ cache[3].timestamp = 3
    /\ cache[4].key = ckey(req["c1"])

\* C10: a get that returns from handleRequest writes its entry to the cache
\* if and only if caching is enabled and the result is a success with a
\* non-null payload, and otherwise leaves the cache as it was.
GetReturns(p) ==
    /\ req[p].method = "GET"
    /\ pc[p] \in {"awaitFetch", "awaitText", "awaitJson", "sleeping"}
    /\ pc'[p] = "done"

C10_WriteIffSuccess ==
    [][\A p \in Callers :
          GetReturns(p) =>
              LET k == ckey(req[p])
                  wrote == /\ CacheHas(cache', k)
                           /\ CacheGet(cache', k) = Entry(k, result'[p].data, now)
              IN  /\ wrote <=> ( /\ config.cache.enabled
                                 /\ result'[p].error = JSNull
                                 /\ result'[p].data # JSNull )
                  /\ ~wrote => cache' = cache]_vars

\* C11: with cache.enabled false the cache is empty before and after every
\* step of every get, post, put and delete, every get goes on to call the
\* transport, and a get that has returned has called it.
C11_DisabledCacheUntouched ==
    [][~config.cache.enabled =>
          /\ cache = << >>
          /\ cache' = << >>
          /\ \A p \in Callers :
                 /\ (\E url \in Urls : Get(p, url, {}))
                        => /\ pc'[p] = "awaitFetch"
                           /\ log'[p] = <<Event("fetch")>>
                 /\ (pc'[p] = "done" /\ req'[p].method = "GET")
                        => Count(log'[p], "fetch") >= 1]_vars

\* with the cache disabled, a get has returned an object after a post, and
\* the cache is empty
C11_Witness ==
    \E p \in Callers :
        /\ ~config.cache.enabled
        /\ pc[p] = "done"
        /\ req[p].method = "GET"
        /\ result[p].data = "objA"
        /\ result[p].at > 0
        /\ cache = << >>

\* C12 as stated: every step of a post, put or delete leaves the cache as
\* it was, and every such call that has ended, by returning or by throwing,
\* has called the transport at least once.
C12_EveryCallReachesTransport ==
    [][\A p \in Callers :
          req'[p].method \in {"POST", "PUT", "DELETE"} =>
              /\ cache' = cache
              /\ pc'[p] \in {"done", "raised"} => Count(log'[p], "fetch") >= 1]_vars

\* C12, amended: every step of a post, put or delete leaves the cache as it
\* was; a post or put with a content type among json, form, text and blob,
\* and every delete, goes on to call the transport whatever the cache holds
\* under its url and headers, and has called it at least once when it ends.
C12_WritesBypassCache ==
    [][\A p \in Callers :
          /\ req'[p].method \in {"POST", "PUT", "DELETE"} => cache' = cache
          /\ \A body \in Bodies :
                 ( /\ SupportedContentType(body.type)
                   /\ Post(p, "/a", body) \/ Put(p, "/a", body) )
                 => /\ pc'[p] = "awaitFetch"
                    /\ log'[p] = <<Event("fetch")>>
          /\ \A headers \in {{}, {JsonHeaders}} :
                 Delete(p, "/a", headers)
                 => /\ pc'[p] = "awaitFetch"
                    /\ log'[p] = <<Event("fetch")>>
          /\ ( /\ req'[p].method \in {"POST", "PUT", "DELETE"}
               /\ pc'[p] \in {"done", "raised"}
               /\ result'[p].thrown # UnsupportedContentType(ContentWrapper("xml", "x")) )
             => Count(log'[p], "fetch") >= 1]_vars

\* a post has returned objB from the transport while the cache holds objA,
\* fresh, under the post's url and headers
C12_Witness ==
    \E p \in Callers :
        /\ pc[p] = "done"
        /\ req[p].method = "POST"
        /\ result[p].data = "objB"
        /\ Calls(p) = 1
        /\ CacheHas(cache, ckey(req[p]))
        /\ CacheGet(cache, ckey(req[p])).data = "objA"
        /\ now - CacheGet(cache, ckey(req[p])).timestamp <= config.cache.maxAge

\* C13: a get, post, put or delete whose last attempt failed (the transport
\* threw, the response was not ok, or its body could not be read) returns a
\* result with data = null and an error; no such call throws, the only
\* exception that leaves a call is one that onRetry threw.
C13_FailuresAreReturned ==
    \A p \in Callers :
        /\ (pc[p] = "done" /\ Calls(p) > 0 /\ Last(log[p])[1] \in {"catch", "notOk"})
               => /\ result[p].data = JSNull
                  /\ result[p].error # JSNull
                  /\ result[p].thrown = JSNull
        /\ pc[p] = "raised"
               => /\ result[p].thrown = "OnRetryError"
                  /\ Last(log[p]) = Event("onRetry")
        /\ (pc[p] \notin {"idle", "raised"} /\ Calls(p) > 0 /\ Last(log[p])[1] = "catch")
               => pc[p] = "done"

\* a put has returned the SyntaxError of its third failed attempt, after a
\* response that was not ok and a fetch that threw
C13_Witness ==
    \E p \in Callers :
        /\ pc[p] = "done"
        /\ req[p].method = "PUT"
        /\ Calls(p) = 3
        /\ Count(log[p], "notOk") = 1
        /\ Last(log[p]) = Caught("SyntaxError")
        /\ result[p] = Result(JSNull, "SyntaxError", now)

\* C14: a post or put whose content type is outside json, form, text and
\* blob throws the error of serializeBody to its caller at once: it never
\* calls the transport or onRetry, never sleeps, and leaves the cache alone.
C14_UnsupportedTypeFailsFast ==
    [][\A p \in Callers : \A body \in Bodies :
          ( /\ ~(body.type \in {"json", "form", "text", "blob"})
            /\ Post(p, "/a", body) \/ Put(p, "/a", body) )
          => /\ pc'[p] = "raised"
             /\ result'[p].thrown = "Error: Unsupported content type: " \o body.type
             /\ Count(log'[p], "fetch") = 0
             /\ Count(log'[p], "onRetry") = 0
             /\ TotalDelay(log'[p]) = 0
             /\ attempts'[p] = 0
             /\ cache' = cache]_vars

\* a put of an xml body has thrown, after a call that did reach the
\* transport
C14_Witness ==
    \E p \in Callers :
        /\ pc[p] = "raised"
        /\ req[p].method = "PUT"
        /\ result[p].thrown = "Error: Unsupported content type: xml"
        /\ result[p].at > 0
        /\ log[p] = << >>
        /\ cache # << >>

\* C15: a get issued while another get of the same url and headers is in
\* flight and the cache has no entry under their key misses and calls the
\* transport; each of the two that succeeds writes the cache when it
\* returns, and after each write the cache holds exactly one entry under
\* the key, with the payload just written.
C15_ConcurrentGetsLastWriteWins ==
    [][\A p \in Callers : \A q \in Callers \ {p} :
          LET k == GenerateCacheKey("/a", {}) IN
          /\ ( /\ pc[q] \in {"awaitFetch", "awaitJson"}
               /\ req[q] = Request("GET", "/a", {}, "")
               /\ ~CacheHas(cache, k)
               /\ Get(p, "/a", {}) )
             => /\ pc'[p] = "awaitFetch"
                /\ log'[p] = <<Event("fetch")>>
          /\ \A data \in ConcurrentPayloads :
                 ( /\ req[q] = Request("GET", "/a", {}, "")
                   /\ Count(log[q], "fetch") = 1
                   /\ JsonResolve(p, data) )
                 => /\ Cardinality({i \in 1..Len(cache') : cache'[i].key = k}) = 1
                    /\ CacheGet(cache', k).data = data
                    /\ CacheGet(cache', k).timestamp = now]_vars

\* the set of name/value pairs a get was given as its headers
HeaderSet(headers) ==
    IF headers = {} THEN {}
    ELSE LET init == CHOOSE h \in headers : TRUE
         IN  {init[i] : i \in 1..Len(init)}

\* C16: two gets of the same url have the same cache key if and only if
\* they were given the same set of header name/value pairs, in whatever
\* order.
C16_KeyOfUrlAndHeaderSet ==
    \A p \in Callers : \A q \in Callers :
        ( /\ req[p].method = "GET"
          /\ req[q].method = "GET"
          /\ req[p].url = req[q].url )
        => ( (HeaderSet(req[p].headers) = HeaderSet(req[q].headers))
               <=> (ckey(req[p]) = ckey(req[q])) )

\* C17: every retry counts one attempt more and stays within retry.count,
\* so the loop cannot go round forever, and every call that is in flight
\* ends, given a transport that settles every await, a timer that fires
\* and an onRetry that returns.
C17_EveryCallCompletes ==
    /\ [][\A p \in Callers :
              (pc[p] # "sleeping" /\ pc'[p] = "sleeping")
              => /\ attempts'[p] = attempts[p] + 1
                 /\ attempts'[p] <= config.retry.count]_vars
    /\ \A p \in Callers :
           (pc[p] \in {"awaitFetch", "awaitText", "awaitJson", "sleeping"})
               ~> (pc[p] \in {"done", "raised"})

\* a delete with retry.count = 2 has ended after three attempts that all
\* failed
C17_Witness ==
    \E p \in Callers :
        /\ pc[p] = "done"
        /\ req[p].method = "DELETE"
        /\ config.retry.count = 2
        /\ Calls(p) = 3
        /\ Failures(p) = 3
        /\ result[p].error # JSNull

\* C18: every call that entered handleRequest has called the transport at
\* least once, and every call that returned did so from inside the loop,
\* right after reading a body or from the catch block, never with the
\* error that follows the loop.
C18_FallThroughUnreachable ==
    \A p \in Callers :
        /\ pc[p] # "idle" => Calls(p) >= 1
        /\ pc[p] = "done"
               => /\ Last(log[p])[1] \in {"ok", "notOk", "catch"}
                  /\ result[p].error # TFetchError("Request failed after maximum retries")

\* with retry.count = 2 a call has returned from the catch block of its
\* third attempt
C18_Witness ==
    \E p \in Callers :
        /\ config.retry.count = 2
        /\ pc[p] = "done"
        /\ attempts[p] = 2
        /\ Calls(p) = 3
        /\ Last(log[p])[1] = "catch"
        /\ result[p].error = "TypeError"

\* C19: an error thrown by response.json() is handled as an error thrown
\* by fetch is: while attempts < retry.count the attempt is counted, onRetry
\* is called if there is one, and the call sleeps for the delay of
\* handleRequest before the next attempt; once attempts = retry.count the
\* call returns data = null and that error.
C19_DecodeFailureRetried ==
    [][\A p \in Callers : \A stage \in {"awaitFetch", "awaitJson"} :
          ( /\ pc[p] = stage
            /\ Len(log'[p]) > Len(log[p])
            /\ log'[p][Len(log[p]) + 1][1] = "catch" )
          => LET error == log'[p][Len(log[p]) + 1][2]
                 caught == Append(log[p], Caught(error))
                 hook == IF config.retry.onRetry # {}
                         THEN <<Event("onRetry")>> ELSE << >>
             IN  IF attempts[p] < config.retry.count
                 THEN /\ attempts'[p] = attempts[p] + 1
                      /\ \/ /\ pc'[p] = "sleeping"
                            /\ log'[p] = caught \o hook \o <<Sleep(delay)>>
                         \/ /\ pc'[p] = "raised"
                            /\ config.retry.onRetry # {}
                            /\ log'[p] = caught \o hook
                 ELSE /\ attempts'[p] = attempts[p]
                      /\ pc'[p] = "done"
                      /\ log'[p] = caught
                      /\ result'[p] = Result(JSNull, error, now)]_vars

\* the body of an ok response could not be decoded, onRetry was called and
\* the call sleeps before its second attempt
C19_Witness ==
    \E p \in Callers :
        /\ pc[p] = "sleeping"
        /\ attempts[p] = 1
        /\ log[p] = <<Event("fetch"), Event("ok"), Caught("SyntaxError"),
                      Event("onRetry"), Sleep(250)>>

\* C20: a call that returns from the catch block, its retry budget used up,
\* has made retry.count + 1 attempts and returns the error its last attempt
\* threw.
C20_LastErrorReturned ==
    \A p \in Callers :
        (pc[p] = "done" /\ Calls(p) > 0 /\ Last(log[p])[1] = "catch")
            => /\ Calls(p) = config.retry.count + 1
               /\ attempts[p] = config.retry.count
               /\ result[p].data = JSNull
               /\ result[p].error = Last(log[p])[2]

\* with retry.count = 1 the first attempt threw a TypeError, the second a
\* SyntaxError, and the call returned the SyntaxError
C20_Witness ==
    \E p \in Callers :
        /\ config.retry.count = 1
        /\ pc[p] = "done"
        /\ log[p][2] = Caught("TypeError")
        /\ Last(log[p]) = Caught("SyntaxError")
        /\ result[p].error = "SyntaxError"

\* C21: a get that finds a fresh entry under its key leaves the cache as it
\* was: the same keys in the same order, each with the data and the
\* timestamp it had.
C21_HitLeavesStoreUnchanged ==
    [][\A p \in Callers : \A url \in Urls :
          LET k == GenerateCacheKey(url, {}) IN
          ( /\ config.cache.enabled
            /\ Get(p, url, {})
            /\ CacheHas(cache, k)
            /\ now - CacheGet(cache, k).timestamp <= config.cache.maxAge )
          => /\ Len(cache') = Len(cache)
             /\ \A i \in 1..Len(cache) :
                    /\ cache'[i].key = cache[i].key
                    /\ cache'[i].data = cache[i].data
                    /\ cache'[i].timestamp = cache[i].timestamp
             /\ pc'[p] = "done"
             /\ result'[p].data = CacheGet(cache, k).data]_vars

\* a get was answered at time 1 from the older of two entries, written at
\* time 0, and the entry still has its timestamp and its place
C21_Witness ==
    \E p \in Callers :
        /\ pc[p] = "done"
        /\ log[p] = <<Event("hit")>>
        /\ Len(cache) = 2
        /\ cache[1].key = ckey(req[p])
        /\ cache[1].timestamp = 0
        /\ now = 1
        /\ result[p].at = 1

\* C22: a cache write that finds the cache at maxCachedEntries first removes
\* the oldest floor(size * 0.25) entries, whether or not its own key is in
\* the cache; a write that finds any other size removes nothing; either way
\* the entries that stay are as they were and the write's own key holds its
\* data with the current time.
C22_SweepOnlyAtCapacity ==
    [][\A p \in Callers :
          LET k == ckey(req[p])
              keys == CacheKeys(cache)
              size == Len(cache)
              swept == IF size = config.cache.maxCachedEntries THEN size \div 4 ELSE 0
          IN
          ( /\ JsonResolve(p, "objA")
            /\ Cacheable(req[p], Result("objA", JSNull, now)) )
          => /\ \E V \in SUBSET keys :
                    /\ Cardinality(V) = swept
                    /\ \A v \in V, r \in keys \ V :
                           CacheGet(cache, v).timestamp <= CacheGet(cache, r).timestamp
                    /\ CacheKeys(cache') = (keys \ V) \cup {k}
                    /\ \A r \in keys \ (V \cup {k}) :
                           CacheGet(cache', r) = CacheGet(cache, r)
             /\ CacheGet(cache', k) = Entry(k, "objA", now)
             /\ Len(cache') = Cardinality(CacheKeys(cache'))]_vars

\* the cache held four entries, the written key among them and not the
\* oldest; the write removed the oldest and renewed its own, leaving three
C22_Witness ==
    \E p \in Callers :
        /\ pc[p] = "done"
        /\ Last(log[p]) = Cleanup(1)
        /\ Len(cache) = 3
        /\ CacheGet(cache, ckey(req[p])).timestamp = now
        /\ \A i \in 1..3 : cache[i].timestamp > 0

\* C23: when onRetry throws, the call throws that exception: it returns no
\* result, calls the transport no more and does not sleep, and nothing
\* happens to the caller after that but a new call.
C23_OnRetryFailurePropagates ==
    [][\A p \in Callers :
          /\ ( \/ FetchReject(p, "TypeError", TRUE)
               \/ TextReject(p, "TypeError", TRUE)
               \/ JsonReject(p, "SyntaxError", TRUE) )
             => /\ pc'[p] = "raised"
                /\ result'[p].thrown = "OnRetryError"
                /\ result'[p].data = JSNull
                /\ result'[p].error = JSNull
                /\ Last(log'[p]) = Event("onRetry")
                /\ Count(log'[p], "fetch") = Count(log[p], "fetch")
                /\ Count(log'[p], "sleep") = Count(log[p], "sleep")
          /\ (pc[p] = "raised" /\ log'[p] # log[p])
             => /\ log'[p] = <<Event("fetch")>>
                /\ attempts'[p] = 0]_vars

\* onRetry threw after the second failed attempt of a call with
\* retry.count = 2: the call has thrown, with one sleep and two attempts
C23_Witness ==
    \E p \in Callers :
        /\ config.retry.count = 2
        /\ pc[p] = "raised"
        /\ result[p].thrown = "OnRetryError"
        /\ Calls(p) = 2
        /\ Count(log[p], "sleep") = 1
        /\ OnRetryCalls(p) = 2

\* C24: whatever the verb, a call keeps its method, url, headers and body
\* from its first attempt to its last; an attempt that ends in the catch
\* block is retried if and only if attempts < retry.count; and when the
\* sleep is over the same request is sent again.
C24_RetryForEveryVerb ==
    [][\A p \in Callers :
          /\ ~Free(p) => req'[p] = req[p]
          /\ ( /\ pc[p] \in {"awaitFetch", "awaitText", "awaitJson"}
               /\ Count(log'[p], "catch") > Count(log[p], "catch") )
             => ( attempts[p] < config.retry.count
                    <=> pc'[p] \in {"sleeping", "raised"} )
          /\ (pc[p] = "sleeping" /\ pc'[p] # "sleeping")
             => /\ pc'[p] = "awaitFetch"
                /\ Last(log'[p]) = Event("fetch")
                /\ Count(log'[p], "fetch") = Count(log[p], "fetch") + 1]_vars

\* a put with retry.count = 2 whose three attempts were all rejected by
\* fetch has returned, still holding its method and body
C24_Witness ==
    \E p \in Callers :
        /\ config.retry.count = 2
        /\ pc[p] = "done"
        /\ req[p] = Request("PUT", "/a", {getHeaders("json")},
                            serializeBody(ContentWrapper("json", "x")))
        /\ Calls(p) = 3
        /\ Failures(p) = 3
        /\ Count(log[p], "notOk") + Count(log[p], "ok") = 0

\* C25: a get that found its entry expired and whose request then failed
\* returns the failure, with data = null, and leaves no entry under its
\* key.
C25_NoStaleFallback ==
    \A p \in Callers :
        ( /\ pc[p] = "done"
          /\ req[p].method = "GET"
          /\ Len(log[p]) > 0
          /\ log[p][1] = Event("expired")
          /\ Last(log[p])[1] \in {"catch", "notOk"} )
        => /\ result[p].data = JSNull
           /\ result[p].error # JSNull
           /\ ~CacheHas(cache, ckey(req[p]))

\* a get found its entry expired, both its attempts were rejected, and it
\* returned the error; the other entry of the cache is still there
C25_Witness ==
    \E p \in Callers :
        /\ pc[p] = "done"
        /\ log[p][1] = Event("expired")
        /\ Calls(p) = 2
        /\ Failures(p) = 2
        /\ result[p].error = "TypeError"
        /\ Len(cache) = 1
        /\ ~CacheHas(cache, ckey(req[p]))

\* C26: every entry of the cache is stored under the key of a url whose
\* server returned the entry's data in a response that was ok, no key is
\* stored twice, and no entry was written later than now; so no entry holds
\* the payload of another url, an error, or null.
C26_CacheIntegrity ==
    /\ \A i \in 1..Len(cache) :
           /\ \E url \in Urls, headers \in IntegrityHeaders :
                  /\ cache[i].key = GenerateCacheKey(url, headers)
                  /\ cache[i].data \in PayloadsOf(url, headers)
           /\ cache[i].timestamp <= now
    /\ \A i \in 1..Len(cache) : \A j \in 1..Len(cache) :
           cache[i].key = cache[j].key => i = j

\* two gets were in flight together for the two urls; both have returned
\* and each url's entry holds the payload its own get returned
C26_Witness ==
    /\ pc = [p \in Callers |-> "done"]
    /\ req["c1"].url = "/a"
    /\ req["c2"].url = "/b"
    /\ req["c2"].headers # {}
    /\ log["c1"] = <<Event("fetch"), Event("ok")>>
    /\ log["c2"] = <<Event("fetch"), Event("ok")>>
    /\ result["c1"].at = result["c2"].at
    /\ Len(cache) = 2
    /\ CacheGet(cache, ckey(req["c1"])).data = result["c1"].data
    /\ CacheGet(cache, ckey(req["c2"])).data = result["c2"].data

====
